---- MODULE Spec2Model ----
(***************************************************************************)
(* A model of habitat_baselines/rl/ppo/ppo.py: the PPO updater.            *)
(*                                                                         *)
(* Two state machines live in this module.                                 *)
(*   Spec      one worker running PPO.update: epochs x minibatches, the    *)
(*             minibatch pipeline of _update_from_batch, the metrics, the  *)
(*             adaptive entropy coefficient and the resume state.          *)
(*   SpecSync  a group of workers running the distributed branch of        *)
(*             PPO.before_step: gradient division, asynchronous            *)
(*             all-reduce, the wait and the optimizer step.                *)
(*                                                                         *)
(* Numbers: real-valued quantities are exact rationals <<num, den>> or     *)
(* fixed-point integers in tenths (One is 1.0).                            *)
(***************************************************************************)
EXTENDS Integers, Sequences, FiniteSets, TLC

\* ------------------------------------------------------------------ bounds
MaxEpoch == 2
MaxMB == 2
MaxCalls == 1
NumSteps == 1

\* ------------------------------------------------- fixed-point arithmetic
\* 1.0 in tenths: the 1.0 of `1.0 - self.clip_param` and of clamp(max=1.0).
One == 10

Abs(x) == IF x < 0 THEN -x ELSE x
Min2(a, b) == IF a <= b THEN a ELSE b
Max2(a, b) == IF a >= b THEN a ELSE b
Clamp(x, lo, hi) == Max2(lo, Min2(x, hi))
Sgn(x) == IF x > 0 THEN 1 ELSE IF x < 0 THEN -1 ELSE 0

RECURSIVE GCD(_, _)
GCD(a, b) == IF b = 0 THEN a ELSE GCD(b, a % b)

\* An exact rational in lowest terms with a positive denominator.
Rat(n, d) ==
    LET g == GCD(Abs(n), Abs(d))
        s == IF d < 0 THEN -1 ELSE 1
    IN  IF n = 0 THEN <<0, 1>> ELSE <<(s * n) \div g, (s * d) \div g>>
RAdd(a, b) == Rat(a[1] * b[2] + b[1] * a[2], a[2] * b[2])
RLeq(a, b) == a[1] * b[2] <= b[1] * a[2]

RECURSIVE SumSeq(_)
SumSeq(s) == IF s = <<>> THEN 0 ELSE Head(s) + SumSeq(Tail(s))

RECURSIVE RSum(_)
RSum(s) == IF s = <<>> THEN <<0, 1>> ELSE RAdd(Head(s), RSum(Tail(s)))

RECURSIVE MinSeq(_)
MinSeq(s) == IF Len(s) = 1 THEN s[1] ELSE Min2(Head(s), MinSeq(Tail(s)))

RECURSIVE MaxSeq(_)
MaxSeq(s) == IF Len(s) = 1 THEN s[1] ELSE Max2(Head(s), MaxSeq(Tail(s)))

\* torch.stack([...]).mean() of a metric sequence (update, lines 397-401).
StackMean(vs) == LET t == RSum(vs) IN Rat(t[1], t[2] * Len(vs))

\* ------------------------------------------------------------ configuration
\* self.clip_param, in tenths (0.2).
clip_param == 2
\* self.max_grad_norm.
max_grad_norm == 2
\* self.num_mini_batch, handed to the sampler unchanged.
num_mini_batch == 2
\* LagrangeInequalityCoefficient(alpha_max=1.0, alpha_min=1e-4), in units of 1e-4.
AlphaMax == 10000
AlphaMin == 1
\* The optimizer's learning rate on alpha, in units of 1e-4.
AlphaLr == 6000

Policies == {"plain", "attentive"}
\* aux_cfg falsy ("none"), aux_cfg given with no tasks ("empty"), tasks given.
AuxKinds == {"none", "empty", "tasks"}

\* self.use_clipped_value_loss.
use_clipped_value_loss == TRUE

Configs ==
    [ppo_epoch : 1..MaxEpoch, policy : Policies, aux : AuxKinds, adaptive : BOOLEAN]

\* len(self._aux_tasks) > 0 (lines 113-118: tasks are kept only with aux_cfg).
HasAuxTasks(c) == c.aux = "tasks"
\* hasattr(self, "aux_cfg") (line 116).
HasAuxCfg(c) == c.aux # "none"
\* isinstance(self.actor_critic, AttentiveBeliefPolicy).
IsAttentive(c) == c.policy = "attentive"

\* ------------------------------------------------------------------ batches
\* What the sampler yields, together with what the policy's evaluation of the
\* batch produces (ratio = exp(new log-prob - old log-prob), in tenths; values
\* and entropy in tenths) and the policy gradient backward leaves (g).
NoCoeffs == <<>>
Batches ==
    << [ratio |-> <<One + clip_param, One - clip_param>>, adv |-> <<1, -1>>,
        values |-> <<12, 3>>, value_preds |-> <<10, 4>>, returns |-> <<11, 2>>,
        entropy |-> <<3, 5>>, is_coeffs |-> NoCoeffs, g |-> 3],
       [ratio |-> <<One + clip_param + 1, One>>, adv |-> <<2, -1>>,
        values |-> <<20, 9>>, value_preds |-> <<10, 10>>, returns |-> <<15, 8>>,
        entropy |-> <<-2, -4>>, is_coeffs |-> <<15, 5>>, g |-> 1],
       [ratio |-> <<One - clip_param - 1, One - clip_param>>, adv |-> <<-1, 3>>,
        values |-> <<7, 7>>, value_preds |-> <<9, 5>>, returns |-> <<7, 6>>,
        entropy |-> <<1, -1>>, is_coeffs |-> <<10, 12>>, g |-> -4] >>

\* rollouts.data_generator: the batch the sampler yields at position bid of an
\* epoch, for the rollout `seed`.
BatchAt(seed, ep, bid) == Batches[((seed + ep + bid) % Len(Batches)) + 1]

\* "is_coeffs" in batch.
HasCoeffs(b) == b.is_coeffs # NoCoeffs

\* get_advantages without normalisation: returns - value_preds of the rollout.
get_advantages(seed) ==
    LET b == BatchAt(seed, 0, 0)
    IN  [i \in 1..Len(b.returns) |-> b.returns[i] - b.value_preds[i]]

\* ------------------------------------------------------------ loss assembly
\* action_loss = -min(surr1, surr2), elementwise, in tenths.
ActionLossElems(b) ==
    [i \in 1..Len(b.ratio) |->
        LET surr1 == b.adv[i] * b.ratio[i]
            surr2 == b.adv[i] * Clamp(b.ratio[i], One - clip_param, One + clip_param)
        IN  -Min2(surr1, surr2)]

\* The values the value loss uses (lines 254-264).
LossValues(b, clipped) ==
    [i \in 1..Len(b.values) |->
        LET delta == b.values[i] - b.value_preds[i]
            value_pred_clipped == b.value_preds[i] + Clamp(delta, -clip_param, clip_param)
        IN  IF clipped
            THEN (IF Abs(delta) < clip_param THEN b.values[i] ELSE value_pred_clipped)
            ELSE b.values[i]]

\* 0.5 * mse_loss(values, returns, reduction="none"); values in tenths, so an
\* element is (v - r)^2 / 200.
ValueLossElems(b, clipped) ==
    LET v == LossValues(b, clipped)
    IN  [i \in 1..Len(v) |-> (v[i] - b.returns[i]) * (v[i] - b.returns[i])]
ValueLossDen == 2 * One * One

\* ver_is_coeffs = batch["is_coeffs"].clamp(max=1.0)
ClampNoClamp(c) == c
ClampCoeffs(c) == [i \in 1..Len(c) |-> Min2(c[i], One)]

\* mean_fn: torch.mean(ver_is_coeffs * t) with is_coeffs, torch.mean(t) without.
\* t is a sequence of numerators over the denominator den.
mean_fn(b, t, den) ==
    IF HasCoeffs(b)
    THEN LET w == ClampCoeffs(b.is_coeffs)
         IN  Rat(SumSeq([i \in 1..Len(t) |-> w[i] * t[i]]), Len(t) * den * One)
    ELSE Rat(SumSeq(t), Len(t) * den)

\* (ratio > 1 + clip).float().mean() + (ratio < 1 - clip).float().mean()
FractionClippedGeq(r) ==
    Rat(Cardinality({i \in 1..Len(r) : r[i] >= One + clip_param})
        + Cardinality({i \in 1..Len(r) : r[i] <= One - clip_param}), Len(r))
FractionClipped(r) ==
    Rat(Cardinality({i \in 1..Len(r) : r[i] > One + clip_param})
        + Cardinality({i \in 1..Len(r) : r[i] < One - clip_param}), Len(r))

\* ------------------------------------------------------------- group: state
\* torch.distributed.get_world_size().
WorldSize == 2
Workers == 1..WorldSize

\* self.named_parameters(), in registration order, each name by its components.
named_parameters ==
    << <<"actor_critic", "net", "weight">>, <<"entropy_coef", "log_alpha">>,
       <<"aux_head", "weight">>, <<"aux_head", "bias">> >>
ParamIds == 1..Len(named_parameters)

\* name.startswith("actor_critic.")
IsPolicyParam(name) == name[1] = "actor_critic"
IsNonAc(i) == ~IsPolicyParam(named_parameters[i])
\* self.non_ac_params (lines 123-127), as positions in named_parameters.
non_ac_params == SelectSeq([i \in ParamIds |-> i], IsNonAc)

VARIABLES
    wpc,       \* per worker: where the minibatch update stands
    wmb,       \* per worker: the minibatch it is in
    wi,        \* per worker: before_step's position in non_ac_params
    wgrad,     \* per worker: p.grad of every parameter
    wheld,     \* per worker: the gradients backward left
    handles,   \* per worker: before_step's local `handles` (collective numbers)
    wseq,      \* per worker: collectives issued on the group so far
    wdone,     \* per worker: handles whose reduction has completed
    wwaits,    \* per worker: waits done in the current minibatch
    coll       \* the group: per collective number, each worker's contribution

svars == <<wpc, wmb, wi, wgrad, wheld, handles, wseq, wdone, wwaits, coll>>

\* ------------------------------------------------------------ update: state
VARIABLES
    cfg,              \* the constructor's arguments
    pc,               \* where update / _update_from_batch stands
    calls,            \* update calls made so far
    seed,             \* the rollout handed to update
    advantages,       \* update's local `advantages`
    advCount,         \* get_advantages calls of the current update call
    samplerCalls,     \* arguments of each rollouts.data_generator call
    epoch,            \* update's loop variable
    bid,              \* batches the current data_generator has yielded
    yielded,          \* batches yielded in the current update call
    recorded,         \* per epoch: minibatches that reached line 333
    batch,            \* _update_from_batch's argument
    locals,           \* names the evaluation dispatch has bound (lines 204-237)
    terms,            \* action_loss, value_loss, dist_entropy after the reduction
    all_losses,       \* the terms stacked into total_loss
    grads,            \* p.grad of the optimizer's parameters
    grad_norm,        \* before_step's return value
    alpha,            \* the adaptive entropy coefficient, units of 1e-4
    optState,         \* the optimizer's state
    optSteps,         \* optimizer.step calls of the current update call
    projections,      \* project_into_bounds calls of the current update call
    learner_metrics,  \* update's local defaultdict(list)
    ret,              \* what the current update call returned
    exc,              \* the exception that left update, if any
    ckpt              \* the last get_resume_state result

uvars == <<cfg, pc, calls, seed, advantages, advCount, samplerCalls, epoch, bid,
           yielded, recorded, batch, locals, terms, all_losses, grads, grad_norm,
           alpha, optState, optSteps, projections, learner_metrics, ret, exc, ckpt>>

\* p.grad is None; a gradient is a tuple: <<g>> here, a rational <<num, den>> in the group.
None == <<>>
NoBatch == [ratio |-> <<>>, adv |-> <<>>, values |-> <<>>, value_preds |-> <<>>,
            returns |-> <<>>, entropy |-> <<>>, is_coeffs |-> NoCoeffs, g |-> 0]
NoTerms == [action_loss |-> <<0, 1>>, value_loss |-> <<0, 1>>, dist_entropy |-> <<0, 1>>]
\* A None appended to a metric list (line 350 with a plain policy).
NoneVal == <<0, 0>>

MetricNames ==
    {"ver_is_coeffs_min", "ver_is_coeffs_mean", "ver_is_coeffs_max",
     "value_pred_min", "value_pred_mean", "value_pred_max",
     "prob_ratio_min", "prob_ratio_mean", "prob_ratio_max",
     "value_loss", "action_loss", "dist_entropy", "ppo_fraction_clipped",
     "grad_norm", "entropy_coef", "aux_cpc_loss",
     "aux_entropy", "aux_entropy_task", "aux_weights_task"}
EmptyMetrics == [k \in MetricNames |-> <<>>]

\* The mapping update returns (lines 396-403): the mean of every metric list.
ReducedMetrics(m) ==
    [k \in {n \in DOMAIN m : m[n] # <<>>} |-> StackMean(m[k])]

\* update has not returned.
NoRet == [returned |-> FALSE, metrics |-> ReducedMetrics(EmptyMetrics)]

\* The parameters self.optimizer holds (_create_optimizer, lines 129-160).
OptParams(c) ==
    {"actor_critic"} \cup (IF c.adaptive THEN {"entropy_coef"} ELSE {})
                     \cup (IF HasAuxTasks(c) THEN {"aux_task"} ELSE {})

\* -threshold of the LagrangeInequalityCoefficient: -entropy_target_factor * num_actions.
EntropyThreshold == 0

\* d lagrangian_loss / d alpha with greater_than=True: entropy - threshold (its sign).
lagrangian_grad(ent) == Sgn(ent[1] - EntropyThreshold * ent[2])

\* ------------------------------------------------------------ update: actions
\* _set_grads_to_none (lines 184-187).
KeepGrads(g) == g
_set_grads_to_none(g) == [p \in DOMAIN g |-> None]

\* update, line 376-378: advantages once, an empty learner_metrics.
update(r) ==
    /\ pc \in {"idle", "raised"}
    /\ calls < MaxCalls
    /\ calls' = calls + 1
    /\ seed' = r
    /\ advantages' = get_advantages(r)
    /\ advCount' = 1
    /\ learner_metrics' = EmptyMetrics
    /\ samplerCalls' = <<>>
    /\ epoch' = 0
    /\ bid' = 0
    /\ yielded' = 0
    /\ recorded' = <<>>
    /\ optSteps' = 0
    /\ projections' = 0
    /\ ret' = NoRet
    /\ exc' = "none"
    /\ pc' = "epoch"
    /\ UNCHANGED <<svars, cfg, batch, locals, terms, all_losses, grads, grad_norm, alpha,
                   optState, ckpt>>

\* update, lines 380-384: one data_generator per epoch.
NewEpoch ==
    /\ pc = "epoch"
    /\ epoch < cfg.ppo_epoch
    /\ samplerCalls' = Append(samplerCalls,
                              [advantages |-> advantages, num_mini_batch |-> num_mini_batch])
    /\ bid' = 0
    /\ recorded' = Append(recorded, 0)
    /\ pc' = "next"
    /\ UNCHANGED <<svars, cfg, calls, seed, advantages, advCount, epoch, yielded, batch, locals,
                   terms, all_losses, grads, grad_norm, alpha, optState, optSteps,
                   projections, learner_metrics, ret, exc, ckpt>>

\* update, line 386: the generator yields its next batch.
Yield ==
    /\ pc = "next"
    /\ bid < MaxMB
    /\ batch' = BatchAt(seed, epoch, bid)
    /\ bid' = bid + 1
    /\ yielded' = yielded + 1
    /\ pc' = "eval"
    /\ UNCHANGED <<svars, cfg, calls, seed, advantages, advCount, samplerCalls, epoch, recorded,
                   locals, terms, all_losses, grads, grad_norm, alpha, optState, optSteps,
                   projections, learner_metrics, ret, exc, ckpt>>

\* update, lines 386-391: the generator is exhausted, the epoch ends.
Exhausted ==
    /\ pc = "next"
    /\ epoch' = epoch + 1
    /\ pc' = "epoch"
    /\ UNCHANGED <<svars, cfg, calls, seed, advantages, advCount, samplerCalls, bid, yielded,
                   recorded, batch, locals, terms, all_losses, grads, grad_norm, alpha,
                   optState, optSteps, projections, learner_metrics, ret, exc, ckpt>>

\* _update_from_batch, lines 203-237: clear the gradients, evaluate the policy.
\* The attentive policy returns eight results, the plain one five.
Evaluate ==
    /\ pc = "eval"
    /\ grads' = _set_grads_to_none(grads)
    /\ locals' = IF IsAttentive(cfg)
                 THEN {"final_rnn_state", "rnn_features", "individual_rnn_features",
                       "aux_dist_entropy", "aux_weights"}
                 ELSE {"final_rnn_state", "aux_loss_res"}
    /\ pc' = "loss"
    /\ UNCHANGED <<svars, cfg, calls, seed, advantages, advCount, samplerCalls, epoch, bid,
                   yielded, recorded, batch, terms, all_losses, grad_norm, alpha, optState,
                   optSteps, projections, learner_metrics, ret, exc, ckpt>>

\* The exception the loss assembly raises, if any: line 304 reads self.aux_cfg
\* whenever aux_dist_entropy is not None, line 311 reads aux_loss_res whenever
\* there are no auxiliary tasks.
AssembleError(c, bound) ==
    IF "aux_dist_entropy" \in bound /\ ~HasAuxCfg(c) THEN "AttributeError"
    ELSE IF ~HasAuxTasks(c) /\ "aux_loss_res" \notin bound THEN "UnboundLocalError"
    ELSE "none"

\* all_losses, lines 289-311, as (term, coefficient) pairs.
AllLosses(c) ==
    <<[term |-> "value_loss", coef |-> "value_loss_coef"],
      [term |-> "action_loss", coef |-> "1"]>>
    \o (IF IsAttentive(c)
        THEN <<[term |-> "total_aux_loss", coef |-> "aux_loss_coef"]>> ELSE <<>>)
    \o (IF c.adaptive
        THEN <<[term |-> "lagrangian_loss", coef |-> "1"]>>
        ELSE <<[term |-> "dist_entropy", coef |-> "-entropy_coef"]>>)
    \o (IF IsAttentive(c)
        THEN <<[term |-> "aux_dist_entropy", coef |-> "aux_cfg.entropy_coef"]>> ELSE <<>>)
    \o (IF ~HasAuxTasks(c)
        THEN <<[term |-> "aux_loss_res", coef |-> "1"]>> ELSE <<>>)

\* _update_from_batch, lines 239-313: the three reduced terms and total_loss.
Assemble ==
    /\ pc = "loss"
    /\ terms' = [action_loss |-> mean_fn(batch, ActionLossElems(batch), One),
                 value_loss |->
                     mean_fn(batch, ValueLossElems(batch, use_clipped_value_loss),
                             ValueLossDen),
                 dist_entropy |-> mean_fn(batch, batch.entropy, One)]
    /\ IF AssembleError(cfg, locals) = "none"
       THEN /\ all_losses' = AllLosses(cfg)
            /\ pc' = "backward"
            /\ exc' = exc
       ELSE /\ all_losses' = all_losses
            /\ pc' = "raised"
            /\ exc' = AssembleError(cfg, locals)
    /\ UNCHANGED <<svars, cfg, calls, seed, advantages, advCount, samplerCalls, epoch, bid,
                   yielded, recorded, batch, locals, grads, grad_norm, alpha, optState,
                   optSteps, projections, learner_metrics, ret, ckpt>>

\* total_loss.backward(), lines 315-317: every parameter the loss used gets a
\* gradient; the auxiliary tasks' parameters only when their losses were computed.
Backward ==
    /\ pc = "backward"
    /\ grads' = [p \in DOMAIN grads |->
                    IF p = "actor_critic" THEN <<batch.g>>
                    ELSE IF p = "entropy_coef" THEN <<lagrangian_grad(terms.dist_entropy)>>
                    ELSE IF IsAttentive(cfg) THEN <<0>> ELSE None]
    /\ pc' = "before_step"
    /\ UNCHANGED <<svars, cfg, calls, seed, advantages, advCount, samplerCalls, epoch, bid,
                   yielded, recorded, batch, locals, terms, all_losses, grad_norm, alpha,
                   optState, optSteps, projections, learner_metrics, ret, exc, ckpt>>

\* nn.utils.clip_grad_norm_ on a one-element gradient: scaled to max_grad_norm
\* when its norm is larger.
clip_grad_norm_(g) == Clamp(g, -max_grad_norm, max_grad_norm)

\* before_step without a process group, lines 418-442: no handles; the policy
\* gradient's norm is measured and clipped.
BeforeStepLocal ==
    /\ pc = "before_step"
    /\ grad_norm' = Abs(grads["actor_critic"][1])
    /\ grads' = [grads EXCEPT !["actor_critic"] = <<clip_grad_norm_(@[1])>>]
    /\ pc' = "step"
    /\ UNCHANGED <<svars, cfg, calls, seed, advantages, advCount, samplerCalls, epoch, bid,
                   yielded, recorded, batch, locals, terms, all_losses, alpha, optState,
                   optSteps, projections, learner_metrics, ret, exc, ckpt>>

\* self.optimizer.step(), line 320: the optimizer consumes the gradients; alpha
\* moves by the learning rate against its gradient and may leave its bounds.
OptimizerStep ==
    /\ pc = "step"
    /\ optState' = [step |-> optState.step + 1,
                    exp_avg |-> optState.exp_avg + grads["actor_critic"][1]]
    /\ alpha' = IF cfg.adaptive THEN alpha - AlphaLr * grads["entropy_coef"][1] ELSE alpha
    /\ optSteps' = optSteps + 1
    /\ pc' = "after_step"
    /\ UNCHANGED <<svars, cfg, calls, seed, advantages, advCount, samplerCalls, epoch, bid,
                   yielded, recorded, batch, locals, terms, all_losses, grads, grad_norm,
                   projections, learner_metrics, ret, exc, ckpt>>

\* LagrangeInequalityCoefficient.project_into_bounds: clamp alpha into its bounds.
project_into_bounds(a) == Clamp(a, AlphaMin, AlphaMax)

after_step_no_projection ==
    /\ pc = "after_step"
    /\ pc' = "metrics"
    /\ UNCHANGED <<svars, cfg, calls, seed, advantages, advCount, samplerCalls, epoch, bid,
                   yielded, recorded, batch, locals, terms, all_losses, grads, grad_norm,
                   alpha, optState, optSteps, projections, learner_metrics, ret, exc, ckpt>>

\* after_step, lines 444-446.
after_step ==
    /\ pc = "after_step"
    /\ IF cfg.adaptive
       THEN /\ alpha' = project_into_bounds(alpha)
            /\ projections' = projections + 1
       ELSE UNCHANGED <<alpha, projections>>
    /\ pc' = "metrics"
    /\ UNCHANGED <<svars, cfg, calls, seed, advantages, advCount, samplerCalls, epoch, bid,
                   yielded, recorded, batch, locals, terms, all_losses, grads, grad_norm,
                   optState, optSteps, learner_metrics, ret, exc, ckpt>>

\* record_min_mean_max (lines 195-201) of a tensor in tenths, as (name, value) pairs.
record_min_mean_max(t, kmin, kmean, kmax) ==
    {<<kmin, Rat(MinSeq(t), One)>>, <<kmean, Rat(SumSeq(t), Len(t) * One)>>,
     <<kmax, Rat(MaxSeq(t), One)>>}

\* epoch == (self.ppo_epoch - 1), line 333.
IsFinalEpoch(c, ep) == ep = c.ppo_epoch - 1

\* The exception the metric recording raises, if any: with auxiliary tasks,
\* line 353 reads aux_weights, which only the attentive evaluation binds.
MetricsError(c, bound) ==
    IF HasAuxTasks(c) /\ "aux_weights" \notin bound THEN "UnboundLocalError" ELSE "none"

\* What lines 323-354 append, as (metric, value) pairs.
MetricEntries(c, b, ep, t, gn, a, bound) ==
    (IF HasCoeffs(b)
     THEN record_min_mean_max(b.is_coeffs, "ver_is_coeffs_min", "ver_is_coeffs_mean",
                              "ver_is_coeffs_max")
     ELSE {})
    \cup record_min_mean_max(b.values, "value_pred_min", "value_pred_mean", "value_pred_max")
    \cup record_min_mean_max(b.ratio, "prob_ratio_min", "prob_ratio_mean", "prob_ratio_max")
    \cup {<<"value_loss", t.value_loss>>, <<"action_loss", t.action_loss>>,
          <<"dist_entropy", t.dist_entropy>>}
    \cup (IF IsFinalEpoch(c, ep)
          THEN {<<"ppo_fraction_clipped", FractionClipped(b.ratio)>>} ELSE {})
    \cup {<<"grad_norm", Rat(gn, 1)>>}
    \cup (IF c.adaptive THEN {<<"entropy_coef", Rat(a, AlphaMax)>>} ELSE {})
    \cup (IF ~HasAuxTasks(c)
          THEN {<<"aux_cpc_loss", <<1, 1>> >>}
          ELSE {<<"aux_entropy",
                  IF "aux_dist_entropy" \in bound THEN <<1, 1>> ELSE NoneVal>>}
               \cup (IF IsAttentive(c) THEN {<<"aux_entropy_task", <<1, 2>> >>} ELSE {})
               \cup (IF "aux_weights" \in bound
                     THEN {<<"aux_weights_task", <<1, 1>> >>} ELSE {}))

AppendEntries(m, es) ==
    [k \in DOMAIN m |->
        IF \E e \in es : e[1] = k
        THEN Append(m[k], (CHOOSE e \in es : e[1] = k)[2])
        ELSE m[k]]

\* _update_from_batch, lines 323-370: the metrics of the minibatch.
RecordMetrics ==
    /\ pc = "metrics"
    /\ learner_metrics' =
           AppendEntries(learner_metrics,
                         MetricEntries(cfg, batch, epoch, terms, grad_norm, alpha, locals))
    /\ recorded' = [recorded EXCEPT ![Len(recorded)] = @ + 1]
    /\ IF MetricsError(cfg, locals) = "none"
       THEN pc' = "next" /\ exc' = exc
       ELSE pc' = "raised" /\ exc' = MetricsError(cfg, locals)
    /\ UNCHANGED <<svars, cfg, calls, seed, advantages, advCount, samplerCalls, epoch, bid,
                   yielded, batch, locals, terms, all_losses, grads, grad_norm, alpha,
                   optState, optSteps, projections, ret, ckpt>>

RaiseSwallowed ==
    /\ pc \in {"eval", "backward", "before_step", "step"}
    /\ exc' = "external"
    /\ pc' = "next"
    /\ UNCHANGED <<svars, cfg, calls, seed, advantages, advCount, samplerCalls, epoch, bid,
                   yielded, recorded, batch, locals, terms, all_losses, grads, grad_norm,
                   alpha, optState, optSteps, projections, learner_metrics, ret, ckpt>>

\* Policy evaluation, backward, the synchronization or the optimizer step
\* raises: update has no try, so the exception leaves it (lines 372-403).
Raise ==
    /\ pc \in {"eval", "backward", "before_step", "step"}
    /\ exc' = "external"
    /\ pc' = "raised"
    /\ UNCHANGED <<svars, cfg, calls, seed, advantages, advCount, samplerCalls, epoch, bid,
                   yielded, recorded, batch, locals, terms, all_losses, grads, grad_norm,
                   alpha, optState, optSteps, projections, learner_metrics, ret, ckpt>>

\* update, lines 393-403: after the last epoch.
Finalize ==
    /\ pc = "epoch"
    /\ epoch = cfg.ppo_epoch
    /\ grads' = _set_grads_to_none(grads)
    /\ ret' = [returned |-> TRUE, metrics |-> ReducedMetrics(learner_metrics)]
    /\ pc' = "idle"
    /\ UNCHANGED <<svars, cfg, calls, seed, advantages, advCount, samplerCalls, epoch, bid,
                   yielded, recorded, batch, locals, terms, all_losses, grad_norm, alpha,
                   optState, optSteps, projections, learner_metrics, exc, ckpt>>

\* get_resume_state's result now: the argument of restore(capture()).
Captured == [k \in {"optim_state"} |-> optState]

\* get_resume_state, lines 448-451.
get_resume_state ==
    /\ pc = "idle"
    /\ ckpt' = Captured
    /\ UNCHANGED <<svars, cfg, pc, calls, seed, advantages, advCount, samplerCalls, epoch, bid,
                   yielded, recorded, batch, locals, terms, all_losses, grads, grad_norm,
                   alpha, optState, optSteps, projections, learner_metrics, ret, exc>>

LoadedOrFresh(state, cur) ==
    IF "optim_state" \in DOMAIN state THEN state["optim_state"]
    ELSE [step |-> 0, exp_avg |-> 0]
\* What the optimizer holds after load_state_dict(state), lines 453-455.
Loaded(state, cur) ==
    IF "optim_state" \in DOMAIN state THEN state["optim_state"] ELSE cur

\* A checkpoint without optimizer state.
NoOptimState == [k \in {"extra_state"} |-> 0]
\* The states load_state_dict is called with: the saved checkpoint, one without
\* optimizer state, and the state captured just now.
LoadInputs == {ckpt, NoOptimState, Captured}

load_state_dict(state) ==
    /\ pc = "idle"
    /\ optState' = Loaded(state, optState)
    /\ UNCHANGED <<svars, cfg, pc, calls, seed, advantages, advCount, samplerCalls, epoch, bid,
                   yielded, recorded, batch, locals, terms, all_losses, grads, grad_norm,
                   alpha, optSteps, projections, learner_metrics, ret, exc, ckpt>>

\* entropy_coef handed to LagrangeInequalityCoefficient as init_alpha, units of 1e-4.
init_alpha == 5000

UInit ==
    /\ cfg \in Configs
    /\ pc = "idle"
    /\ calls = 0
    /\ seed = 0
    /\ advantages = <<>>
    /\ advCount = 0
    /\ samplerCalls = <<>>
    /\ epoch = 0
    /\ bid = 0
    /\ yielded = 0
    /\ recorded = <<>>
    /\ batch = NoBatch
    /\ locals = {}
    /\ terms = NoTerms
    /\ all_losses = <<>>
    /\ grads = [p \in OptParams(cfg) |-> None]
    /\ grad_norm = 0
    /\ alpha = init_alpha
    /\ optState = [step |-> 0, exp_avg |-> 0]
    /\ optSteps = 0
    /\ projections = 0
    /\ learner_metrics = EmptyMetrics
    /\ ret = NoRet
    /\ exc = "none"
    /\ ckpt = NoOptimState

UNext ==
    \/ \E r \in 0..(Len(Batches) - 1) : update(r)
    \/ NewEpoch
    \/ Yield
    \/ Exhausted
    \/ Evaluate
    \/ Assemble
    \/ Backward
    \/ BeforeStepLocal
    \/ OptimizerStep
    \/ after_step
    \/ RecordMetrics
    \/ Raise
    \/ Finalize

\* ------------------------------------------------------------ group: actions
NoContribution == [param |-> 0, mb |-> 0, val |-> <<0, 0>>]
\* No more collectives than every worker reducing every parameter in every minibatch.
MaxColl == NumSteps * Len(non_ac_params)

\* The gradient backward leaves on parameter i of worker w in minibatch m.
GradOf(w, m, i) == <<10 * w + 3 * m + i * i, 1>>

\* The contributions of collective k are all there.
Complete(k) == \A v \in Workers : coll[k][v] # NoContribution
\* all_reduce's result: the sum of the contributions.
Reduced(k) == RSum([v \in Workers |-> coll[k][v].val])
\* The collectives of worker w's current handles.
HandleSet(w) == {handles[w][n] : n \in 1..Len(handles[w])}

\* _update_from_batch, lines 203-317, on worker w: the gradients are cleared and
\* backward leaves a gradient on the policy and on the parameters in `present`.
SBackward(w, present) ==
    /\ wpc[w] = "backward"
    /\ wgrad' = [wgrad EXCEPT ![w] =
                    [i \in ParamIds |->
                        IF IsPolicyParam(named_parameters[i]) \/ i \in present
                        THEN GradOf(w, wmb[w], i) ELSE None]]
    /\ wheld' = [wheld EXCEPT ![w] = wgrad'[w]]
    /\ handles' = [handles EXCEPT ![w] = <<>>]
    /\ wdone' = [wdone EXCEPT ![w] = {}]
    /\ wi' = [wi EXCEPT ![w] = 1]
    /\ wwaits' = [wwaits EXCEPT ![w] = 0]
    /\ wpc' = [wpc EXCEPT ![w] = "issue"]
    /\ UNCHANGED <<uvars, wmb, wseq, coll>>

\* before_step, lines 421-430, one parameter with a gradient: divide it by the
\* world size in place and issue the asynchronous all_reduce on it. The group
\* pairs the n-th collective of every worker.
Issue(w) ==
    /\ wpc[w] = "issue"
    /\ wi[w] <= Len(non_ac_params)
    /\ LET p == non_ac_params[wi[w]]
           g == wgrad[w][p]
           d == Rat(g[1], g[2] * WorldSize)
           k == wseq[w] + 1
       IN  /\ g # None
           /\ wgrad' = [wgrad EXCEPT ![w][p] = d]
           /\ coll' = [coll EXCEPT ![k][w] = [param |-> p, mb |-> wmb[w], val |-> d]]
           /\ handles' = [handles EXCEPT ![w] = Append(@, k)]
           /\ wseq' = [wseq EXCEPT ![w] = k]
    /\ wi' = [wi EXCEPT ![w] = @ + 1]
    /\ UNCHANGED <<uvars, wpc, wmb, wheld, wdone, wwaits>>

\* before_step, line 422: a parameter without a gradient is passed over.
SkipNone(w) ==
    /\ wpc[w] = "issue"
    /\ wi[w] <= Len(non_ac_params)
    /\ wgrad[w][non_ac_params[wi[w]]] = None
    /\ wi' = [wi EXCEPT ![w] = @ + 1]
    /\ UNCHANGED <<uvars, wpc, wmb, wgrad, wheld, handles, wseq, wdone, wwaits, coll>>

\* before_step, lines 432-438: the policy's gradients are clipped while the
\* reductions are in flight.
Clip(w) ==
    /\ wpc[w] = "issue"
    /\ wi[w] > Len(non_ac_params)
    /\ wgrad' = [wgrad EXCEPT ![w] =
                    [i \in ParamIds |->
                        IF IsPolicyParam(named_parameters[i]) /\ wgrad[w][i] # None
                        THEN <<clip_grad_norm_(wgrad[w][i][1]), 1>> ELSE wgrad[w][i]]]
    /\ wpc' = [wpc EXCEPT ![w] = "wait"]
    /\ UNCHANGED <<uvars, wmb, wi, wheld, handles, wseq, wdone, wwaits, coll>>

\* The group completes collective k on worker w: the sum lands in the tensor
\* the worker handed in. A group runs its collectives in the order they were
\* issued; a collective every worker has seen completed is forgotten.
Deliver(w, k) ==
    /\ k \in HandleSet(w) \ wdone[w]
    /\ \A j \in HandleSet(w) : j < k => j \in wdone[w]
    /\ Complete(k)
    /\ wgrad' = [wgrad EXCEPT ![w][coll[k][w].param] = Reduced(k)]
    /\ wdone' = [wdone EXCEPT ![w] = @ \cup {k}]
    /\ coll' = IF \A v \in Workers \ {w} : k \in wdone[v]
               THEN [coll EXCEPT ![k] = [v \in Workers |-> NoContribution]]
               ELSE coll
    /\ UNCHANGED <<uvars, wpc, wmb, wi, wheld, handles, wseq, wwaits>>

WaitWithoutBlocking(w) ==
    /\ wpc[w] = "wait"
    /\ wwaits' = [wwaits EXCEPT ![w] = @ + 1]
    /\ wpc' = [wpc EXCEPT ![w] = "step"]
    /\ UNCHANGED <<uvars, wmb, wi, wgrad, wheld, handles, wseq, wdone, coll>>

\* before_step, line 440: [h.wait() for h in handles] returns once every
\* handle's reduction has completed.
Wait(w) ==
    /\ wpc[w] = "wait"
    /\ HandleSet(w) \subseteq wdone[w]
    /\ wwaits' = [wwaits EXCEPT ![w] = @ + 1]
    /\ wpc' = [wpc EXCEPT ![w] = "step"]
    /\ UNCHANGED <<uvars, wmb, wi, wgrad, wheld, handles, wseq, wdone, coll>>

\* _update_from_batch, line 320, and update, line 386: self.optimizer.step(),
\* then the next minibatch if there is one.
SStep(w) ==
    /\ wpc[w] = "step"
    /\ IF wmb[w] < NumSteps
       THEN wmb' = [wmb EXCEPT ![w] = @ + 1] /\ wpc' = [wpc EXCEPT ![w] = "backward"]
       ELSE wmb' = wmb /\ wpc' = [wpc EXCEPT ![w] = "finished"]
    /\ UNCHANGED <<uvars, wi, wgrad, wheld, handles, wseq, wdone, wwaits, coll>>

SInit ==
    /\ wpc = [w \in Workers |-> "backward"]
    /\ wmb = [w \in Workers |-> 1]
    /\ wi = [w \in Workers |-> 1]
    /\ wgrad = [w \in Workers |-> [i \in ParamIds |-> None]]
    /\ wheld = [w \in Workers |-> [i \in ParamIds |-> None]]
    /\ handles = [w \in Workers |-> <<>>]
    /\ wseq = [w \in Workers |-> 0]
    /\ wdone = [w \in Workers |-> {}]
    /\ wwaits = [w \in Workers |-> 0]
    /\ coll = [k \in 1..MaxColl |-> [v \in Workers |-> NoContribution]]

SNext ==
    \E w \in Workers :
        \/ \E present \in SUBSET {non_ac_params[n] : n \in 1..Len(non_ac_params)} :
               SBackward(w, present)
        \/ Issue(w)
        \/ SkipNone(w)
        \/ Clip(w)
        \/ \E k \in 1..MaxColl : Deliver(w, k)
        \/ Wait(w)
        \/ SStep(w)

vars == <<uvars, svars>>

\* One worker, no process group.
Init == UInit /\ SInit
Next == UNext
Spec == Init /\ [][Next]_vars

\* The resume state: updates of one configuration, with get_resume_state and
\* load_state_dict called between them.
ResumeInit ==
    /\ Init
    /\ cfg = [ppo_epoch |-> 1, policy |-> "plain", aux |-> "none", adaptive |-> FALSE]

ResumeNext ==
    \/ UNext
    \/ get_resume_state
    \/ \E state \in LoadInputs : load_state_dict(state)

SpecResume == ResumeInit /\ [][ResumeNext]_vars

\* A group of workers in the minibatches of one update, with the adaptive
\* entropy coefficient as a parameter outside the policy.
SyncInit ==
    /\ Init
    /\ cfg = [ppo_epoch |-> 1, policy |-> "plain", aux |-> "none", adaptive |-> TRUE]

SpecSync == SyncInit /\ [][SNext]_vars

\* ------------------------------------------------------------------ claims
\* _update_from_batch is between the policy evaluation and the metric recording.
InBatch == pc \in {"eval", "loss", "backward", "before_step", "step", "after_step", "metrics"}

\* C2: with the adaptive entropy coefficient, alpha lies in [alpha_min, alpha_max]
\* in every state but the one between the optimizer step and the projection of
\* the same minibatch, and the projection has run once per optimizer step.
C2_AlphaWithinBounds ==
    cfg.adaptive =>
        /\ pc # "after_step" => (AlphaMin <= alpha /\ alpha <= AlphaMax)
        /\ pc # "after_step" => projections = optSteps
        /\ pc = "after_step" => projections = optSteps - 1

C2_Witness ==
    cfg.adaptive /\ pc = "metrics" /\ projections = 2 /\ alpha = AlphaMax

\* C3: once policy evaluation, backward, the synchronization or the optimizer
\* step has raised, update is left with no return value, and as long as that
\* exception stands no epoch, minibatch, optimizer step or metric follows.
C3_ExceptionAborts ==
    /\ [](exc = "external" => (pc = "raised" /\ ~ret.returned))
    /\ [][(exc = "external" /\ exc' = "external")
            => UNCHANGED <<epoch, bid, yielded, optSteps, optState, learner_metrics, ret>>]_vars

C3_Witness ==
    exc = "external" /\ pc = "raised" /\ optSteps >= 1 /\ epoch + 1 < cfg.ppo_epoch

\* C5: advantages are computed once per call and before any minibatch; every
\* sampler call gets those advantages and num_mini_batch, one call per epoch;
\* each yielded minibatch gets one optimizer step before the next is drawn; and
\* a call that returns has run ppo_epoch sampler calls, cleared every gradient
\* and returned the mean of every metric sequence.
C5_UpdateLifecycle ==
    /\ (pc \notin {"idle", "raised"} \/ ret.returned) => advCount = 1
    /\ \A i \in 1..Len(samplerCalls) :
           samplerCalls[i] = [advantages |-> get_advantages(seed),
                              num_mini_batch |-> num_mini_batch]
    /\ InBatch => (Len(samplerCalls) = epoch + 1 /\ epoch < cfg.ppo_epoch)
    /\ InBatch => optSteps = (IF pc \in {"after_step", "metrics"} THEN yielded
                                                                   ELSE yielded - 1)
    /\ pc \in {"next", "epoch"} => optSteps = yielded
    /\ ret.returned =>
           /\ pc = "idle"
           /\ epoch = cfg.ppo_epoch
           /\ Len(samplerCalls) = cfg.ppo_epoch
           /\ optSteps = yielded
           /\ \A p \in DOMAIN grads : grads[p] = None
           /\ \A k \in MetricNames :
                  IF learner_metrics[k] = <<>>
                  THEN k \notin DOMAIN ret.metrics
                  ELSE /\ k \in DOMAIN ret.metrics
                       /\ RSum(learner_metrics[k])
                              = Rat(ret.metrics[k][1] * Len(learner_metrics[k]),
                                    ret.metrics[k][2])

C5_Witness ==
    ret.returned /\ pc = "idle" /\ cfg.ppo_epoch = 2 /\ yielded >= 3 /\ optSteps = yielded

\* C6: load_state_dict puts state["optim_state"] in place of the optimizer's
\* state when the key is there and leaves the optimizer's state alone when it
\* is not; loading the state captured just now changes nothing.
C6_RestoreVerbatim ==
    [][/\ \A state \in LoadInputs :
              load_state_dict(state) =>
                  IF "optim_state" \in DOMAIN state
                  THEN optState' = state["optim_state"]
                  ELSE optState' = optState
       /\ load_state_dict(Captured) => optState' = optState]_vars

\* The optimizer has stepped since the checkpoint was taken and holds the
\* checkpoint's state again.
C6_Witness ==
    /\ pc = "idle" /\ ret.returned /\ optSteps >= 1
    /\ "optim_state" \in DOMAIN ckpt
    /\ optState = ckpt["optim_state"]
    /\ optState.step < optSteps

\* The reduction with weights w: mean(w * t), the weights in tenths.
WeightedMean(w, t, den) == Rat(SumSeq([i \in 1..Len(t) |-> w[i] * t[i]]), Len(t) * den * One)

\* The weights of the reduction: is_coeffs cut off at 1.0, or 1.0 throughout.
LossWeights(b) ==
    [i \in 1..Len(b.ratio) |->
        IF HasCoeffs(b) THEN (IF b.is_coeffs[i] > One THEN One ELSE b.is_coeffs[i]) ELSE One]

\* The three terms of the current minibatch are reduced with the same weights,
\* none above 1.0.
C7_TermsUseClampedWeights ==
    pc \in {"backward", "before_step", "step", "after_step", "metrics"} =>
        LET w == LossWeights(batch)
        IN  /\ \A i \in 1..Len(w) : w[i] <= One
            /\ terms.action_loss = WeightedMean(w, ActionLossElems(batch), One)
            /\ terms.value_loss
                   = WeightedMean(w, ValueLossElems(batch, use_clipped_value_loss),
                                  ValueLossDen)
            /\ terms.dist_entropy = WeightedMean(w, batch.entropy, One)

\* C7 (as stated): every is_coeffs value is cut off at 1.0 before any use of it
\* by the minibatch update, the metrics included.
C7_ClampedBeforeAnyUse ==
    /\ C7_TermsUseClampedWeights
    /\ \A k \in {"ver_is_coeffs_min", "ver_is_coeffs_mean", "ver_is_coeffs_max"} :
           \A i \in 1..Len(learner_metrics[k]) : RLeq(learner_metrics[k][i], <<1, 1>>)

\* C7 (amended): the loss terms use the cut-off weights, all three alike, and
\* the ver_is_coeffs metrics are taken from the is_coeffs as the batch carries
\* them.
C7_ClampedInLossTerms ==
    /\ C7_TermsUseClampedWeights
    /\ (pc = "next" /\ bid > 0 /\ HasCoeffs(batch)) =>
           LET m == learner_metrics["ver_is_coeffs_max"]
           IN  m # <<>> /\ m[Len(m)] = Rat(MaxSeq(batch.is_coeffs), One)

C7_Witness ==
    /\ pc = "next" /\ bid > 0 /\ HasCoeffs(batch)
    /\ \E i \in 1..Len(batch.is_coeffs) : batch.is_coeffs[i] > One

\* The fraction of ratios strictly outside [1 - clip_param, 1 + clip_param].
StrictlyOutside(r) ==
    Rat(Cardinality({i \in 1..Len(r) :
                        r[i] - One > clip_param \/ One - r[i] > clip_param}), Len(r))

\* C8: ppo_fraction_clipped holds one observation per recorded minibatch of
\* the final epoch and none of an earlier epoch, each the fraction of the
\* minibatch's ratios strictly outside the clip interval.
C8_FractionClipped ==
    LET fc == learner_metrics["ppo_fraction_clipped"]
        n == IF Len(recorded) = cfg.ppo_epoch THEN recorded[cfg.ppo_epoch] ELSE 0
    IN  /\ Len(fc) = n
        /\ \A i \in 1..Len(fc) :
               fc[i] = StrictlyOutside(BatchAt(seed, cfg.ppo_epoch - 1, i - 1).ratio)

\* A final-epoch minibatch with ratios exactly on both ends of the clip
\* interval has been recorded, after a first epoch that recorded minibatches.
C8_Witness ==
    /\ cfg.ppo_epoch = 2 /\ Len(recorded) = 2 /\ recorded[1] >= 1 /\ recorded[2] >= 1
    /\ \E i \in 1..recorded[2] :
           LET r == BatchAt(seed, 1, i - 1).ratio
           IN  /\ \E j \in 1..Len(r) : r[j] = One + clip_param
               /\ \E j \in 1..Len(r) : r[j] = One - clip_param
               /\ learner_metrics["ppo_fraction_clipped"][i] = <<0, 1>>

\* C9: in every combination of policy variant and auxiliary-task set the loss
\* assembly and the metric recording read only results the evaluation has
\* bound, so no minibatch update ends in an unbound name or a missing attribute.
C9_ReadsOnlyBoundResults ==
    exc \notin {"UnboundLocalError", "AttributeError"}

\* C1: a worker about to run optimizer.step() has waited, once in this
\* minibatch, and every all-reduce it issued in this minibatch's before_step
\* has completed; before the wait it has not waited.
C1_WaitedBeforeStep ==
    \A w \in Workers :
        /\ wpc[w] = "step" => (HandleSet(w) \subseteq wdone[w] /\ wwaits[w] = 1)
        /\ wpc[w] \in {"issue", "wait"} => wwaits[w] = 0

C1_Witness ==
    \E w \in Workers : wpc[w] = "step" /\ Len(handles[w]) >= 2 /\ wwaits[w] = 1

\* before_step has returned on worker w: the worker is at the optimizer step or
\* past it, its gradients not yet cleared by the next minibatch.
Returned(w) == wpc[w] \in {"step", "finished"} \/ (wpc[w] = "backward" /\ wmb[w] > 1)
\* The minibatch whose gradients worker w holds.
GradMb(w) == IF wpc[w] = "backward" THEN wmb[w] - 1 ELSE wmb[w]

\* C4: once before_step has returned on all workers for a minibatch, a
\* parameter outside the policy on which every worker held a gradient carries,
\* on every worker, the sum of those gradients over the world size; a policy
\* parameter carries its own gradient, clipped, neither divided nor reduced.
C4_AveragedOnAllWorkers ==
    ((\A w \in Workers : Returned(w)) /\ (\A v, w \in Workers : GradMb(v) = GradMb(w))) =>
        \A i \in ParamIds :
            IF IsPolicyParam(named_parameters[i])
            THEN \A w \in Workers : wgrad[w][i] = <<clip_grad_norm_(wheld[w][i][1]), 1>>
            ELSE (\A v \in Workers : wheld[v][i] # None) =>
                     LET t == RSum([v \in Workers |-> wheld[v][i]])
                     IN  \A w \in Workers : wgrad[w][i] = Rat(t[1], t[2] * WorldSize)

\* C10: a collective only ever combines the gradients of one parameter of one
\* minibatch, and no worker waits on a collective that a worker which has
\* finished never joined.
C10_ReductionsMatch ==
    /\ \A k \in 1..MaxColl : \A v, w \in Workers :
           (coll[k][v] # NoContribution /\ coll[k][w] # NoContribution) =>
               (coll[k][v].param = coll[k][w].param /\ coll[k][v].mb = coll[k][w].mb)
    /\ \A w \in Workers :
           wpc[w] = "wait" =>
               \A k \in HandleSet(w) \ wdone[w] : \A v \in Workers :
                   coll[k][v] = NoContribution => wpc[v] # "finished"

====
